---- MODULE Spec2Model ----
(***************************************************************************)
(* A model of linear.py: the linear-evaluation driver of a frozen encoder. *)
(*                                                                         *)
(* The run is one sequential process.  Its position is pc, an uncaught     *)
(* exception is recorded in exc.  The external collaborators (data         *)
(* loader, encoder, classifier, low-shot evaluator) are modelled by what   *)
(* the driver can observe of them: the batches a loader yields, the        *)
(* tensor(s) a forward pass returns, the scores a classifier reports, or   *)
(* a failure.                                                              *)
(*                                                                         *)
(* Strings that the code inspects (checkpoint keys) are sequences of       *)
(* tokens.  The tokens are "backbone.", "encoder." and the leaf name "w";  *)
(* no proper suffix of one token is a prefix of "backbone.encoder." or of  *)
(* "encoder.encoder.", so a character-level match of either pattern in a   *)
(* key always starts and ends on token boundaries, and substring search    *)
(* and replacement on the token sequence agree with Python's on the        *)
(* string.                                                                 *)
(***************************************************************************)
EXTENDS Integers, Sequences, FiniteSets, TLC

VARIABLES
    pc,          \* position of the run in __main__ / eval_linear / get_embeddings
    exc,         \* "none", or the exception that ended the run
    steps,       \* history: the driver steps completed so far, in order
    args,        \* parsed command line
    arch,        \* the encoder ModelWrapper(args) builds: what its forward pass returns
    ckpt,        \* the object torch.load returns for args.model_file_path
    pool,        \* the distinct (data, target) examples the dataset holds
    log,         \* content of log.csv: a sequence of lines
    priorLog,    \* history: content of log.csv when the run started
    model,       \* the encoder: its state dict, device and mode
    fp16_scaler, \* eval_linear's local
    split,       \* the loader get_embeddings is iterating
    embs,        \* get_embeddings' local list of embedding rows
    targets,     \* get_embeddings' local list of labels
    seen,        \* history: the batches the current loader has yielded
    exhausted,   \* the current loader has yielded its last (partial) batch
    X,           \* X_train, X_val, X_test
    y,           \* y_train, y_val, y_test
    batches,     \* history: per split, the batches its loader yielded
    scores,      \* score_all and score_5 as far as computed
    load         \* load_model's locals: sd, clean_sd and the branch that set it

vars == <<pc, exc, steps, args, arch, ckpt, pool, log, priorLog, model,
          fp16_scaler, split, embs, targets, seen, exhausted, X, y, batches,
          scores, load>>

-----------------------------------------------------------------------------
(* Bounds of the model. *)

\* longest module path in front of a checkpoint key's leaf name
MaxDepth == 3
\* most tensors in one checkpoint file (nested mapping and top level together)
MaxEntries == 2
\* most examples one split's loader yields
MaxN == 3
\* args.batch_size
BatchSize == 2
\* per-layer outputs a list-returning encoder produces
NumLayers == 2
\* most lines earlier runs left in log.csv
MaxPrior == 1

-----------------------------------------------------------------------------
(* Python strings as token sequences. *)

BACKBONE == <<"backbone.", "encoder.">>
ENCODER == <<"encoder.", "encoder.">>

\* p in k
StrContains(k, p) ==
    \E i \in 1..(Len(k) - Len(p) + 1) : SubSeq(k, i, i + Len(p) - 1) = p

\* k.startswith(p): what "prefix" means in the specification
StartsWith(k, p) ==
    Len(k) >= Len(p) /\ SubSeq(k, 1, Len(p)) = p

RECURSIVE StrReplace(_, _)
\* k.replace(p, ""): every non-overlapping occurrence, leftmost first
StrReplace(k, p) ==
    IF Len(k) < Len(p) THEN k
    ELSE IF SubSeq(k, 1, Len(p)) = p
         THEN StrReplace(SubSeq(k, Len(p) + 1, Len(k)), p)
         ELSE <<Head(k)>> \o StrReplace(Tail(k), p)

\* k with one leading p removed
StripPrefix(k, p) == SubSeq(k, Len(p) + 1, Len(k))

-----------------------------------------------------------------------------
(* Python dicts: insertion-ordered sequences of <<key, value>> with        *)
(* pairwise distinct keys.                                                 *)

DictKeys(d) == {d[i][1] : i \in DOMAIN d}

DictValues(d) == {d[i][2] : i \in DOMAIN d}

\* d[k], for a key of d
DictGet(d, k) == d[CHOOSE i \in DOMAIN d : d[i][1] = k][2]

\* d[k] = v: a new key goes last, a known key keeps its place
DictSet(d, k, v) ==
    IF k \in DictKeys(d)
    THEN [i \in DOMAIN d |-> IF d[i][1] = k THEN <<k, v>> ELSE d[i]]
    ELSE Append(d, <<k, v>>)

RECURSIVE Comprehension(_, _, _)
\* {k.replace(p, ""): v for k, v in sd.items() if p in k}, with acc the
\* dict built from the items already visited
Comprehension(sd, p, acc) ==
    IF sd = <<>> THEN acc
    ELSE LET k == Head(sd)[1]
             v == Head(sd)[2]
         IN  Comprehension(Tail(sd), p,
                 IF StrContains(k, p) THEN DictSet(acc, StrReplace(k, p), v)
                 ELSE acc)

-----------------------------------------------------------------------------
(* load_model *)

\* the parameter names of ModelWrapper(args).encoder
ModelKeys == {<<"w">>}

\* the encoder as constructed: randomly initialised, on the host
FreshModel ==
    [sd |-> << <<<<"w">>, <<"init", 1>>>> >>, device |-> "cpu", mode |-> "train"]

\* load_model without lines 120-121
NoUnwrap(raw) == raw.rest

\* lines 120-121: unwrap the nested mapping under 'model'
Unwrap(raw) == IF raw.wrapped THEN raw.model ELSE raw.rest

\* lines 122-130: the prefix fallback
CleanSd(sd) ==
    LET first == Comprehension(sd, BACKBONE, <<>>)
        second == Comprehension(sd, ENCODER, <<>>)
    IN  IF first # <<>> THEN first
        ELSE IF second # <<>> THEN second
        ELSE sd

\* which branch of lines 122-130 produced clean_sd
Selected(sd) ==
    IF Comprehension(sd, BACKBONE, <<>>) # <<>> THEN "backbone.encoder."
    ELSE IF Comprehension(sd, ENCODER, <<>>) # <<>> THEN "encoder.encoder."
    ELSE "none"

\* line 132: load_state_dict(strict=True) accepts exactly the encoder's keys
StrictOk(clean_sd) == DictKeys(clean_sd) = ModelKeys

\* the state dict after a successful load_state_dict: the encoder's keys, in
\* the encoder's order, with the checkpoint's tensors
LoadStateDict(m, clean_sd) ==
    [m EXCEPT !.sd = [i \in DOMAIN m.sd |->
                         <<m.sd[i][1], DictGet(clean_sd, m.sd[i][1])>>]]

\* a run that stays at the failing step and takes it again
PropagateRetry(at) == at

\* the exception a failing step raises is not caught anywhere: the run ends
Propagate(at) == "aborted"

-----------------------------------------------------------------------------
(* get_embeddings *)

\* a tensor on the device: one row per example of the batch
Tensor(layer, datas, dtype) ==
    [rows |-> [i \in DOMAIN datas |-> <<layer, datas[i]>>],
     dtype |-> dtype, device |-> "cuda"]

\* lines 32-41: the forward pass, by encode_vit or by the encoder itself,
\* under autocast(enabled=(fp16_scaler is not None)).  Without autocast the float32 encoder computes in float32; with
\* it the output has the dtype of the encoder's last autocast operation.
\* A list-returning encoder gives one tensor per layer, the last one being
\* the representation a tensor-returning encoder gives.
Forward(datas, scaler) ==
    LET dtype == IF scaler # "None" THEN arch.amp ELSE "float32"
    IN  IF arch.out = "list"
        THEN [list |-> TRUE,
              items |-> [l \in 1..NumLayers |-> Tensor(l, datas, dtype)]]
        ELSE [list |-> FALSE,
              items |-> <<Tensor(NumLayers, datas, dtype)>>]

\* emb = emb[0] in place of emb[-1]
SelectFirst(out) == out.items[1]

\* lines 42-43: if isinstance(emb, list): emb = emb[-1]
Select(out) ==
    IF out.list THEN out.items[Len(out.items)] ELSE out.items[1]

\* line 44: emb.detach().cpu().numpy(): same values, same dtype, host memory
ToNumpy(t) == [rows |-> t.rows, dtype |-> t.dtype, device |-> "cpu"]

\* iterating a 2-D array yields its rows, each of the array's dtype
Rows(a) == [i \in DOMAIN a.rows |-> [v |-> a.rows[i], dtype |-> a.dtype]]

\* list.append in place of list.extend: the batch becomes one element
ExtendAsAppend(list, rows) == Append(list, [v |-> rows, dtype |-> "object"])

\* the new batch put in front of the rows collected so far
ExtendFront(list, rows) == rows \o list

\* lines 45-46: list.extend
Extend(list, rows) == list \o rows

\* numpy's result type of a list of rows
ResultType(list) ==
    IF list = <<>> THEN "float64"
    ELSE IF \E i \in DOMAIN list : list[i].dtype = "float32" THEN "float32"
    ELSE list[1].dtype

\* line 48: np.array(embs)
NpArray(list) ==
    [rows |-> [i \in DOMAIN list |-> list[i].v], dtype |-> ResultType(list)]

\* line 48: np.array(targets); target.numpy() holds integer class indices
NpLabels(list) == [rows |-> list, dtype |-> "int64"]

\* test extracted before val
SplitOrderSwapped == <<"train", "test", "val">>

\* lines 60-62: the order eval_linear extracts the splits in
SplitOrder == <<"train", "val", "test">>

PosOf(s) == CHOOSE i \in DOMAIN SplitOrder : SplitOrder[i] = s

Splits == {"train", "val", "test"}

Unset == [rows |-> <<>>, dtype |-> "unset"]

\* all examples of a sequence of batches, in the order yielded
RECURSIVE Flatten(_)
Flatten(bs) == IF bs = <<>> THEN <<>> ELSE Head(bs) \o Flatten(Tail(bs))

-----------------------------------------------------------------------------
(* __main__ *)

\* a handler that truncates the file
LogModeTruncate == "w"

\* line 151: logging.FileHandler(log_path, mode="a")
LogMode == "a"

\* open(path, mode): "w" truncates, "a" keeps the content
OpenFile(content, mode) == IF mode = "w" THEN <<>> ELSE content

\* what the classifier and the low-shot evaluator write to the root logger,
\* and so to log.csv, while they run: the log is specified to receive one
\* line per run, so nothing
LibraryLogLines == <<>>

\* lines 165-166: the format string with its four fields filled in.  An int
\* formats as its decimal digits; a score is carried as the text str() gives
\* for it.
FormatLine(epoch, score_all, score_5) ==
    "epoch," \o ToString(epoch) \o ",linear_score," \o score_all
        \o ",linear_score_5_mean," \o score_5[1]
        \o ",linear_score_5_std," \o score_5[2]

-----------------------------------------------------------------------------
(* Inputs. *)

PathTokens == {"backbone.", "encoder."}

\* checkpoint keys: a module path followed by the parameter's leaf name
Keys ==
    {path \o <<"w">> : path \in UNION {[1..n -> PathTokens] : n \in 0..MaxDepth}}

\* the dicts of n tensors: pairwise distinct keys, every tensor its own
\* object, named by the mapping that holds it and its place there
Dicts(n, tag) ==
    {[i \in 1..n |-> <<ks[i], <<tag, i>>>>] :
        ks \in {f \in [1..n -> Keys] :
                   \A i, j \in 1..n : i # j => f[i] # f[j]}}

\* what torch.load can return: a dict of k tensors, or a dict that holds a
\* dict of n tensors under 'model' next to k other entries
CheckpointsOf(wrapped, n, k) ==
    {[wrapped |-> wrapped, model |-> m, rest |-> r] :
        m \in Dicts(n, "model"), r \in Dicts(k, "top")}

NoCheckpoint == [wrapped |-> FALSE, model |-> <<>>, rest |-> <<>>]

\* the checkpoints of the driver's runs: the two saving conventions, a
\* wrapped one, and one whose keys the encoder does not know
DriverCheckpoints ==
    {[wrapped |-> FALSE, model |-> <<>>,
      rest |-> << <<BACKBONE \o <<"w">>, <<"top", 1>>>> >>],
     [wrapped |-> TRUE,
      model |-> << <<ENCODER \o <<"w">>, <<"model", 1>>>> >>,
      rest |-> << <<BACKBONE \o <<"w">>, <<"top", 1>>>> >>],
     [wrapped |-> FALSE, model |-> <<>>,
      rest |-> << <<<<"backbone.", "w">>, <<"top", 1>>>> >>]}

Archs == [out : {"tensor", "list"}, amp : {"float16", "float32"}]

Epochs == {100, 7}

ScoreAll == {"0.8532", "0.5"}

Score5 == {<<"0.71", "0.04">>, <<"0.25", "0.0">>}

\* lines written by earlier runs
OldLine == FormatLine(50, "0.5", <<"0.25", "0.0">>)

PriorLogs == UNION {[1..n -> {OldLine}] : n \in 0..MaxPrior}

NoLoad == [sd |-> <<>>, clean_sd |-> <<>>, branch |-> "unset"]

NoScores == [score_all |-> "unset", score_5 |-> <<"unset", "unset">>]

\* the part of the state no input decides
Blank ==
    /\ exc = "none"
    /\ embs = <<>>
    /\ targets = <<>>
    /\ seen = <<>>
    /\ exhausted = FALSE
    /\ X = [s \in Splits |-> Unset]
    /\ y = [s \in Splits |-> Unset]
    /\ batches = [s \in Splits |-> <<>>]
    /\ scores = NoScores
    /\ split = "none"
    /\ fp16_scaler = "None"

\* the process starts: any command line, any earlier log, a dataset of one
\* example repeated
Init ==
    /\ Blank
    /\ pc = "start"
    /\ steps = <<>>
    /\ args \in [model_file_path : {"", "ckpt.pth"}, model_epoch : Epochs,
                 dataset : {"fsd50k", "other"}, use_fp16_eval : BOOLEAN]
    /\ arch \in Archs
    /\ ckpt \in IF args.model_file_path = "" THEN {NoCheckpoint}
                ELSE DriverCheckpoints
    /\ pool = {[data |-> "a", target |-> 1]}
    /\ priorLog \in PriorLogs
    /\ log = priorLog
    /\ model = FreshModel
    /\ load = NoLoad

\* load_model is entered: any checkpoint file
InitLoad ==
    /\ Blank
    /\ pc = "load_model"
    /\ steps = <<"logger", "get_data">>
    /\ args \in [model_file_path : {"", "ckpt.pth"}, model_epoch : {100},
                 dataset : {"fsd50k"}, use_fp16_eval : {FALSE}]
    /\ arch = [out |-> "tensor", amp |-> "float32"]
    /\ IF args.model_file_path = "" THEN ckpt = NoCheckpoint
       ELSE \E n \in 0..MaxEntries :
              \E k \in 0..(MaxEntries - n) :
                \E wrapped \in {n > 0, TRUE} :
                  ckpt \in CheckpointsOf(wrapped, n, k)
    /\ pool = {[data |-> "a", target |-> 1]}
    /\ priorLog = <<>>
    /\ log = priorLog
    /\ model = FreshModel
    /\ load = NoLoad

\* eval_linear is entered: any dataset, any encoder, either precision
InitEmb ==
    /\ Blank
    /\ pc = "eval_linear"
    /\ steps = <<"logger", "get_data", "load_model", "to_device">>
    /\ args \in [model_file_path : {""}, model_epoch : {100},
                 dataset : {"fsd50k"}, use_fp16_eval : BOOLEAN]
    /\ arch \in Archs
    /\ ckpt = NoCheckpoint
    /\ pool \in {{[data |-> "a", target |-> 1], [data |-> "b", target |-> 0]}}
    /\ priorLog = <<>>
    /\ log = priorLog
    /\ model = [FreshModel EXCEPT !.device = "cuda", !.mode = "eval"]
    /\ load = NoLoad

-----------------------------------------------------------------------------
(* The steps of the run. *)

\* an uncaught exception e raised by the step at pc
Raise(e) ==
    /\ pc' = Propagate(pc)
    /\ exc' = e

\* lines 146-151: the log file is opened for the handler
SetupLogger ==
    /\ pc = "start"
    /\ log' = OpenFile(log, LogMode)
    /\ pc' = "get_data"
    /\ steps' = Append(steps, "logger")
    /\ UNCHANGED <<exc, args, arch, ckpt, pool, priorLog, model, fp16_scaler,
                   split, embs, targets, seen, exhausted, X, y, batches,
                   scores, load>>

\* lines 92-95, 154: get_data returns the three loaders for 'fsd50k' and
\* None for any other dataset, which line 154 cannot unpack
GetData ==
    /\ pc = "get_data"
    /\ IF args.dataset = "fsd50k"
       THEN /\ pc' = "load_model"
            /\ steps' = Append(steps, "get_data")
            /\ exc' = exc
       ELSE /\ Raise("TypeError")
            /\ steps' = steps
    /\ UNCHANGED <<args, arch, ckpt, pool, log, priorLog, model, fp16_scaler,
                   split, embs, targets, seen, exhausted, X, y, batches,
                   scores, load>>

\* lines 114-133, 157
LoadModel ==
    /\ pc = "load_model"
    /\ IF args.model_file_path = ""
       THEN /\ pc' = "to_device"
            /\ steps' = Append(steps, "load_model")
            /\ UNCHANGED <<exc, model, load>>
       ELSE LET sd == Unwrap(ckpt)
                clean_sd == CleanSd(sd)
            IN  /\ load' = [sd |-> sd, clean_sd |-> clean_sd,
                            branch |-> Selected(sd)]
                /\ IF StrictOk(clean_sd)
                   THEN /\ model' = LoadStateDict(model, clean_sd)
                        /\ pc' = "to_device"
                        /\ steps' = Append(steps, "load_model")
                        /\ exc' = exc
                   ELSE /\ Raise("RuntimeError")
                        /\ UNCHANGED <<model, steps>>
    /\ UNCHANGED <<args, arch, ckpt, pool, log, priorLog, fp16_scaler, split,
                   embs, targets, seen, exhausted, X, y, batches, scores>>

\* lines 158-159: model.cuda(); model.eval()
ToDevice ==
    /\ pc = "to_device"
    /\ model' = [model EXCEPT !.device = "cuda", !.mode = "eval"]
    /\ pc' = "eval_linear"
    /\ steps' = Append(steps, "to_device")
    /\ UNCHANGED <<exc, args, arch, ckpt, pool, log, priorLog, fp16_scaler,
                   split, embs, targets, seen, exhausted, X, y, batches,
                   scores, load>>

\* lines 54-56: eval_linear is entered
EvalLinear ==
    /\ pc = "eval_linear"
    /\ fp16_scaler' = IF args.use_fp16_eval THEN "GradScaler" ELSE "None"
    /\ split' = SplitOrder[1]
    /\ pc' = "get_embeddings"
    /\ UNCHANGED <<exc, steps, args, arch, ckpt, pool, log, priorLog, model,
                   embs, targets, seen, exhausted, X, y, batches, scores, load>>

\* lines 29-30: get_embeddings is entered for the current split
BeginExtract ==
    /\ pc = "get_embeddings"
    /\ model' = [model EXCEPT !.mode = "eval"]
    /\ embs' = <<>>
    /\ targets' = <<>>
    /\ seen' = <<>>
    /\ exhausted' = FALSE
    /\ pc' = "loop"
    /\ steps' = Append(steps, "extract_" \o split)
    /\ UNCHANGED <<exc, args, arch, ckpt, pool, log, priorLog, fp16_scaler,
                   split, X, y, batches, scores, load>>

\* lines 31-46: one iteration.  The loader (drop_last=False) yields
\* BatchSize examples, or fewer in its last batch; the forward pass may
\* fail.
ExtractBatch ==
    /\ pc = "loop"
    /\ ~exhausted
    /\ \E n \in 1..BatchSize :
         /\ Len(Flatten(seen)) + n <= MaxN
         /\ \E batch \in [1..n -> pool], ok \in BOOLEAN :
              /\ seen' = Append(seen, batch)
              /\ exhausted' = (n < BatchSize)
              /\ IF ok
                 THEN LET data == [i \in 1..n |-> batch[i].data]
                          target == [i \in 1..n |-> batch[i].target]
                          emb == ToNumpy(Select(Forward(data, fp16_scaler)))
                      IN  /\ embs' = Extend(embs, Rows(emb))
                          /\ targets' = Extend(targets, target)
                          /\ UNCHANGED <<pc, exc>>
                 ELSE /\ Raise("EncoderError")
                      /\ UNCHANGED <<embs, targets>>
    /\ UNCHANGED <<steps, args, arch, ckpt, pool, log, priorLog, model,
                   fp16_scaler, split, X, y, batches, scores, load>>

\* line 48 and lines 60-62: the loader is exhausted, the arrays are
\* returned and bound, and the next split (or the classifier) follows
EndExtract ==
    /\ pc = "loop"
    /\ seen # <<>>
    /\ X' = [X EXCEPT ![split] = NpArray(embs)]
    /\ y' = [y EXCEPT ![split] = NpLabels(targets)]
    /\ batches' = [batches EXCEPT ![split] = seen]
    /\ IF PosOf(split) < Len(SplitOrder)
       THEN /\ split' = SplitOrder[PosOf(split) + 1]
            /\ pc' = "get_embeddings"
       ELSE /\ split' = split
            /\ pc' = "fit"
    /\ UNCHANGED <<exc, steps, args, arch, ckpt, pool, log, priorLog, model,
                   fp16_scaler, embs, targets, seen, exhausted, scores, load>>

\* lines 67-74: the classifier is fitted on train with val for early stopping
Fit ==
    /\ pc = "fit"
    /\ \E ok \in BOOLEAN :
         IF ok THEN /\ pc' = "score"
                    /\ steps' = Append(steps, "fit")
                    /\ exc' = exc
         ELSE /\ Raise("FitError")
              /\ steps' = steps
    /\ log' = log \o LibraryLogLines
    /\ UNCHANGED <<args, arch, ckpt, pool, priorLog, model, fp16_scaler,
                   split, embs, targets, seen, exhausted, X, y, batches,
                   scores, load>>

\* line 75: score_all = clf.score(X_test, y_test)
Score ==
    /\ pc = "score"
    /\ \E s \in ScoreAll :
         scores' = [scores EXCEPT !.score_all = s]
    /\ pc' = "low_shot"
    /\ steps' = Append(steps, "score")
    /\ log' = log \o LibraryLogLines
    /\ UNCHANGED <<exc, args, arch, ckpt, pool, priorLog, model,
                   fp16_scaler, split, embs, targets, seen, exhausted, X, y,
                   batches, load>>

\* lines 81-89, 162-164: the low-shot evaluation with n=5; the results are
\* returned to __main__
LowShot ==
    /\ pc = "low_shot"
    /\ \E s \in Score5 :
         scores' = [scores EXCEPT !.score_5 = s]
    /\ pc' = "log"
    /\ steps' = Append(steps, "low_shot")
    /\ log' = log \o LibraryLogLines
    /\ UNCHANGED <<exc, args, arch, ckpt, pool, priorLog, model,
                   fp16_scaler, split, embs, targets, seen, exhausted, X, y,
                   batches, load>>

\* lines 165-166: the result line goes through the handler to the file
LogResult ==
    /\ pc = "log"
    /\ log' = Append(log, FormatLine(args.model_epoch, scores.score_all,
                                     scores.score_5))
    /\ pc' = "done"
    /\ steps' = Append(steps, "log")
    /\ UNCHANGED <<exc, args, arch, ckpt, pool, priorLog, model, fp16_scaler,
                   split, embs, targets, seen, exhausted, X, y, batches,
                   scores, load>>

Next ==
    \/ SetupLogger
    \/ GetData
    \/ LoadModel
    \/ ToDevice
    \/ EvalLinear
    \/ BeginExtract
    \/ ExtractBatch
    \/ EndExtract
    \/ Fit
    \/ Score
    \/ LowShot
    \/ LogResult

Spec == Init /\ [][Next]_vars

\* load_model alone, over every checkpoint of the bounds
NextLoad == LoadModel

SpecLoad == InitLoad /\ [][NextLoad]_vars

\* the three get_embeddings calls of eval_linear, over every dataset of the
\* bounds
NextEmb ==
    \/ EvalLinear
    \/ BeginExtract
    \/ ExtractBatch
    \/ EndExtract

SpecEmb == InitEmb /\ [][NextEmb]_vars

-----------------------------------------------------------------------------
(* Properties of get_embeddings, checked under SpecEmb. *)

\* the examples the current call has been given so far
Given == Flatten(seen)

\* the examples split s's call was given
GivenTo(s) == Flatten(batches[s])

Returned(s) == X[s] # Unset

\* C1: after every batch appended, and in what is returned, there are as
\* many embedding rows as examples yielded so far, and as many labels as
\* embedding rows.
C1_RowCounts ==
    /\ exc = "none" =>
         /\ Len(embs) = Len(Given)
         /\ Len(targets) = Len(embs)
    /\ \A s \in Splits :
         Returned(s) =>
            /\ Len(X[s].rows) = Len(GivenTo(s))
            /\ Len(y[s].rows) = Len(X[s].rows)

\* a call is in its loop after a second batch, with an earlier split of
\* two batches returned
C1_Witness ==
    /\ pc = "loop"
    /\ exc = "none"
    /\ Len(seen) = 2
    /\ Len(embs) = MaxN
    /\ Returned("train")
    /\ Len(batches["train"]) = 2

\* C2: row i and label i come from the i-th example yielded, each example
\* once, in the order yielded.
C2_InOrder ==
    /\ exc = "none" =>
         /\ DOMAIN embs = DOMAIN Given
         /\ DOMAIN targets = DOMAIN Given
         /\ \A i \in DOMAIN Given :
              /\ embs[i].v = <<NumLayers, Given[i].data>>
              /\ targets[i] = Given[i].target
    /\ \A s \in Splits :
         Returned(s) =>
            /\ DOMAIN X[s].rows = DOMAIN GivenTo(s)
            /\ DOMAIN y[s].rows = DOMAIN GivenTo(s)
            /\ \A i \in DOMAIN GivenTo(s) :
                 /\ X[s].rows[i] = <<NumLayers, GivenTo(s)[i].data>>
                 /\ y[s].rows[i] = GivenTo(s)[i].target

\* a split of two batches with different examples has been returned
C2_Witness ==
    /\ Returned("test")
    /\ Len(batches["test"]) = 2
    /\ \E i, j \in DOMAIN GivenTo("test") :
         /\ i < j
         /\ GivenTo("test")[i].data # GivenTo("test")[j].data
         /\ GivenTo("test")[i].target # GivenTo("test")[j].target

\* C7: whether or not the reduced-precision flag is set, every stored
\* embedding is float32.
C7_AlwaysFloat32 ==
    /\ \A i \in DOMAIN embs : embs[i].dtype = "float32"
    /\ \A s \in Splits : Returned(s) => X[s].dtype = "float32"

\* the rows a batch must contribute: those of the last tensor the forward
\* pass produced, values and dtype as produced
RECURSIVE LastOutputs(_, _)
LastOutputs(bs, scaler) ==
    IF bs = <<>> THEN <<>>
    ELSE LET data == [i \in DOMAIN Head(bs) |-> Head(bs)[i].data]
             out == Forward(data, scaler).items
             last == out[Len(out)]
         IN  [i \in DOMAIN last.rows |-> [v |-> last.rows[i], dtype |-> last.dtype]]
                 \o LastOutputs(Tail(bs), scaler)

\* C9: of a list of per-layer outputs only the final one is stored, a single
\* output is stored as it is, and two calls given the same batches return
\* the same embeddings.
C9_FinalLayerOnly ==
    /\ exc = "none" => embs = LastOutputs(seen, fp16_scaler)
    /\ \A i \in DOMAIN embs : embs[i].v[1] = NumLayers
    /\ \A s \in Splits :
         Returned(s) =>
            /\ \A i \in DOMAIN X[s].rows : X[s].rows[i][1] = NumLayers
            /\ \A t \in Splits :
                 (Returned(t) /\ batches[s] = batches[t]) => X[s] = X[t]

\* a list-returning encoder, and two splits given the same two batches
C9_Witness ==
    /\ arch.out = "list"
    /\ Returned("train")
    /\ Returned("val")
    /\ batches["train"] = batches["val"]
    /\ Len(batches["val"]) = 2

-----------------------------------------------------------------------------
(* Properties of load_model, checked under SpecLoad. *)

Loaded == load.branch # "unset"

\* the entries of sd whose key begins with p
Carrying(sd, p) == {i \in DOMAIN sd : StartsWith(sd[i][1], p)}

PrefixOf(branch) == IF branch = "backbone.encoder." THEN BACKBONE ELSE ENCODER

\* C3: the first prefix, in the order backbone.encoder., encoder.encoder.,
\* that some key carries is the one used; a prefix no key carries makes the
\* loader fall back to the next; with neither the mapping is used as it is;
\* with both, only the backbone.encoder. entries are used.
C3_PrefixOrder ==
    Loaded =>
       LET sd == load.sd
           b == Carrying(sd, BACKBONE)
           e == Carrying(sd, ENCODER)
       IN  /\ load.branch = IF b # {} THEN "backbone.encoder."
                            ELSE IF e # {} THEN "encoder.encoder."
                            ELSE "none"
           /\ (b = {} /\ e = {}) => load.clean_sd = sd
           /\ (b # {} /\ e # {}) =>
                 DictValues(load.clean_sd) = {sd[i][2] : i \in b}

\* C4: with a prefix selected, the result holds exactly the entries whose
\* key begins with it, each under its key less the leading prefix and with
\* its own value, as many as there are such keys.
C4_StrippedExactly ==
    (Loaded /\ load.branch # "none") =>
       LET sd == load.sd
           p == PrefixOf(load.branch)
           c == Carrying(sd, p)
       IN  /\ {load.clean_sd[i] : i \in DOMAIN load.clean_sd}
                 = {<<StripPrefix(sd[i][1], p), sd[i][2]>> : i \in c}
           /\ Len(load.clean_sd) = Cardinality(c)

\* C10: with a mapping nested under 'model', stripping and the strict load
\* work on its entries alone; without one, on the checkpoint itself.
C10_Unwrapped ==
    Loaded =>
       LET sd == IF ckpt.wrapped THEN ckpt.model ELSE ckpt.rest
       IN  /\ load.sd = sd
           /\ DictValues(load.clean_sd) \subseteq DictValues(sd)
           /\ exc = "none" => DictValues(model.sd) \subseteq DictValues(sd)

\* a wrapped checkpoint whose nested mapping loads, next to a top-level
\* entry that carries a known prefix
C10_Witness ==
    /\ Loaded
    /\ exc = "none"
    /\ ckpt.wrapped
    /\ ckpt.model # <<>>
    /\ \E i \in DOMAIN ckpt.rest : StartsWith(ckpt.rest[i][1], BACKBONE)

-----------------------------------------------------------------------------
(* Properties of the run, checked under Spec. *)

\* C5: once a step has failed the run is over: nothing is retried, no later
\* step runs, and the log holds no line of this run.
C5_FailStop ==
    [][ /\ exc' # "none" => (pc' = "aborted" /\ log' = priorLog')
        /\ exc # "none" => UNCHANGED vars ]_vars

\* the encoder failed on a batch after a split had been extracted
C5_Witness ==
    /\ exc = "EncoderError"
    /\ pc = "aborted"
    /\ Returned("train")
    /\ load.branch = "backbone.encoder."

RECURSIVE JoinCsv(_)
JoinCsv(fields) ==
    IF Len(fields) = 1 THEN fields[1]
    ELSE fields[1] \o "," \o JoinCsv(Tail(fields))

\* C6: a completed run has appended exactly one line, the eight fields in
\* their order, after the lines earlier runs left; nothing is written
\* before that.
C6_OneLine ==
    /\ pc # "done" => log = priorLog
    /\ pc = "done" =>
         /\ Len(log) = Len(priorLog) + 1
         /\ SubSeq(log, 1, Len(priorLog)) = priorLog
         /\ log[Len(log)] =
               JoinCsv(<<"epoch", ToString(args.model_epoch),
                         "linear_score", scores.score_all,
                         "linear_score_5_mean", scores.score_5[1],
                         "linear_score_5_std", scores.score_5[2]>>)
         /\ (/\ args.model_epoch = 100
             /\ scores.score_all = "0.8532"
             /\ scores.score_5 = <<"0.71", "0.04">>) =>
               log[Len(log)] =
                  "epoch,100,linear_score,0.8532,linear_score_5_mean,0.71,linear_score_5_std,0.04"

\* a run over an earlier log completed with the scores 0.8532 and (0.71, 0.04)
C6_Witness ==
    /\ pc = "done"
    /\ priorLog # <<>>
    /\ args.model_epoch = 100
    /\ scores.score_all = "0.8532"
    /\ scores.score_5 = <<"0.71", "0.04">>

StepOrder ==
    <<"logger", "get_data", "load_model", "to_device", "extract_train",
      "extract_val", "extract_test", "fit", "score", "low_shot", "log">>

Started(step) == \E i \in DOMAIN steps : steps[i] = step

\* C8: the steps are taken in the one order data, model, train, val, test,
\* fit, score, low-shot, log, each after the one before it has completed,
\* and the classifier is fitted only with all three splits extracted.
C8_StepOrder ==
    /\ Len(steps) <= Len(StepOrder)
    /\ steps = SubSeq(StepOrder, 1, Len(steps))
    /\ Started("extract_train") => model.device = "cuda"
    /\ Started("extract_val") => Returned("train")
    /\ Started("extract_test") => Returned("val")
    /\ (Started("fit") \/ pc \in {"fit", "score", "low_shot", "log", "done"}) =>
          \A s \in Splits : Returned(s)
    /\ Started("log") => (scores.score_all \in ScoreAll /\ scores.score_5 \in Score5)
    /\ pc = "done" => steps = StepOrder

\* a run has completed
C8_Witness ==
    /\ pc = "done"
    /\ steps = StepOrder
    /\ load.branch = "encoder.encoder."

====
